---- MODULE Spec2Model ----
(***************************************************************************)
(* Model of scripts/funding.py: the rate normalizer (coerce_rate), the     *)
(* aggregator pass (extract_record, fetch_agg), the Paradex market probe   *)
(* (_parse_ts, extract_paradex_latest, fetch_paradex_latest_for_base) and  *)
(* the run itself (main).                                                  *)
(*                                                                         *)
(* Numbers.  A Python float is a record [k, v]: k = "fin" with v the value *)
(* as an integer, "nan", "inf" (v the sign) or "none" for Python's None.   *)
(* Rates are held in units of 10^-5 (One = 1.0), timestamps in seconds.    *)
(* A JSON value is a record [t, v]; see the constructors below.            *)
(***************************************************************************)
EXTENDS Integers, Sequences, FiniteSets, TLC

VARIABLES
    pc,             \* position of main, or of the function applied on its own
    by_base,        \* main, fetch_agg: BASE -> (platform -> rate)
    bases_lighter,  \* fetch_agg: the seed list
    nnodes,         \* fetch_agg: nodes of the aggregator document visited so far
    last,           \* fetch_agg: the triple of the node visited last, and whether it was kept
    hist,           \* history: bases of the Lighter records kept, in order
    only_bases,     \* args.only_bases, split
    limit,          \* args.limit
    quotes,         \* args.quotes, split
    bases,          \* main: the assets to probe
    bi,             \* main: index in bases of the asset being probed
    qi,             \* fetch_paradex_latest_for_base: index of the next quote
    log,            \* history: the requests of the current probe, with their responses
    rate,           \* main: what the probe returned
    row0,           \* history: the asset's row when its probe began
    requested,      \* history: a probe request was issued in the run
    rendered,       \* history: the render step was reached
    inp,            \* input of the function applied on its own
    out             \* its result

vars == <<pc, by_base, bases_lighter, nnodes, last, hist, only_bases, limit, quotes,
          bases, bi, qi, log, rate, row0, requested, rendered, inp, out>>

mainVars == <<by_base, bases_lighter, nnodes, last, hist, only_bases, limit, quotes,
              bases, bi, qi, log, rate, row0, requested, rendered>>

-----------------------------------------------------------------------------
(* Python floats and None *)

None == [k |-> "none", v |-> 0]
Fin(n) == [k |-> "fin", v |-> n]
NaN == [k |-> "nan", v |-> 0]
Inf(s) == [k |-> "inf", v |-> s]

Abs(n) == IF n < 0 THEN -n ELSE n

\* abs(x) > c and abs(x) <= c, with c a finite number; both are False on nan
AbsGt(x, c) == CASE x.k = "fin" -> Abs(x.v) > c
                 [] x.k = "inf" -> TRUE
                 [] OTHER -> FALSE

AbsLe(x, c) == CASE x.k = "fin" -> Abs(x.v) <= c
                 [] OTHER -> FALSE

\* a > b on floats
FGt(a, b) == CASE a.k = "nan" \/ b.k = "nan" -> FALSE
               [] a.k = "inf" -> a.v = 1 /\ ~(b.k = "inf" /\ b.v = 1)
               [] b.k = "inf" -> b.v = -1
               [] OTHER -> a.v > b.v

\* truth value of an optional float: None and 0.0 are falsy
FTruthy(x) == CASE x.k = "none" -> FALSE
                [] x.k = "fin" -> x.v # 0
                [] OTHER -> TRUE

FOr(a, b) == IF FTruthy(a) THEN a ELSE b

-----------------------------------------------------------------------------
(* JSON values *)

JNull == [t |-> "null", v |-> 0]
JNum(n) == [t |-> "num", v |-> n]        \* the number n
JNumK(n) == [t |-> "numk", v |-> n]      \* the number 1000 * n
JStr(n) == [t |-> "str", v |-> n]        \* a string that float() reads as n
JStrNaN == [t |-> "strnan", v |-> 0]     \* "nan"
JStrInf == [t |-> "strinf", v |-> 1]     \* "inf"
JStrBad == [t |-> "strbad", v |-> 0]     \* a non-empty string that is no number and no date
JStrEmpty == [t |-> "strempty", v |-> 0] \* ""
JIso(n) == [t |-> "iso", v |-> n]        \* an ISO-8601 string of the instant n
JObj == [t |-> "obj", v |-> 0]           \* a non-empty list or object

\* truth value of a JSON value, as Python's `or` sees it
Truthy(j) == CASE j.t = "null" -> FALSE
               [] j.t \in {"num", "numk"} -> j.v # 0
               [] j.t = "strempty" -> FALSE
               [] OTHER -> TRUE

PyOr(a, b) == IF Truthy(a) THEN a ELSE b

\* float(val) for val not None; k = "err" when float() raises
ToFloat(j) == CASE j.t = "num" -> Fin(j.v)
                [] j.t = "numk" -> Fin(1000 * j.v)
                [] j.t = "str" -> Fin(j.v)
                [] j.t = "strnan" -> NaN
                [] j.t = "strinf" -> Inf(j.v)
                [] OTHER -> [k |-> "err", v |-> 0]

-----------------------------------------------------------------------------
(* coerce_rate *)

One == 100000
Hundred == 100
PctMax == 10000000
RateMax == 50000

\* coerce_rate with the percentage range closed at 1.0
coerce_rate_ge(val) ==
    IF val = JNull THEN None
    ELSE LET x == ToFloat(val) IN
         IF x.k = "err" THEN None
         ELSE LET y == IF (AbsGt(x, One) \/ x = Fin(One) \/ x = Fin(-One)) /\ AbsLe(x, PctMax)
                       THEN Fin(x.v \div Hundred) ELSE x
              IN IF AbsGt(y, RateMax) THEN None ELSE y

coerce_rate(val) ==
    IF val = JNull THEN None
    ELSE LET x == ToFloat(val) IN
         IF x.k = "err" THEN None
         ELSE LET y == IF AbsGt(x, One) /\ AbsLe(x, PctMax)
                       THEN Fin(x.v \div Hundred) ELSE x
              IN IF AbsGt(y, RateMax) THEN None ELSE y

-----------------------------------------------------------------------------
(* _parse_ts, extract_paradex_latest *)

MsThresholdK == 1000000000

_parse_ts(ts_val) ==
    CASE ts_val.t = "null" -> None
      [] ts_val.t = "num" ->
            IF ts_val.v \div 1000 > MsThresholdK
               \/ (ts_val.v \div 1000 = MsThresholdK /\ ts_val.v % 1000 > 0)
            THEN Fin(ts_val.v \div 1000) ELSE Fin(ts_val.v)
      [] ts_val.t = "numk" ->
            IF ts_val.v > MsThresholdK THEN Fin(ts_val.v) ELSE Fin(1000 * ts_val.v)
      [] ts_val.t = "iso" -> Fin(ts_val.v)
      [] OTHER -> None

\* an element of the list: a dict with the fields the code reads, or something else
NotDict == [isdict |-> FALSE, funding_rate |-> JNull, fundingRate |-> JNull,
            hourly_funding_rate |-> JNull, timestamp |-> JNull, time |-> JNull,
            ts |-> JNull, created_at |-> JNull, updated_at |-> JNull]

Entry(r, t) == [NotDict EXCEPT !.isdict = TRUE, !.funding_rate = r, !.timestamp = t]

\* rate of one entry: lines 218-222
entry_rate(it) ==
    LET rate_raw == PyOr(PyOr(it.funding_rate, it.fundingRate), it.hourly_funding_rate)
        x == ToFloat(rate_raw)
    IN IF rate_raw = JNull \/ x.k = "err" THEN None ELSE x

\* timestamp of one entry: lines 224-226
entry_ts(it) ==
    FOr(FOr(FOr(FOr(_parse_ts(it.timestamp), _parse_ts(it.time)), _parse_ts(it.ts)),
            _parse_ts(it.created_at)), _parse_ts(it.updated_at))

\* one iteration of the loop, lines 216-229
best_step(best, it) ==
    IF ~it.isdict THEN best
    ELSE LET r == entry_rate(it) IN
         IF r = None THEN best
         ELSE LET t0 == entry_ts(it)
                  t == IF t0 = None THEN Fin(best.ts.v + 1) ELSE t0
              IN IF FGt(t, best.ts) THEN [rate |-> r, ts |-> t] ELSE best

RECURSIVE best_loop(_, _)
best_loop(best, items) ==
    IF items = <<>> THEN best
    ELSE best_loop(best_step(best, Head(items)), Tail(items))

\* a value that may be a list: null, a list, or something else that is truthy
MNull == [t |-> "null", list |-> <<>>]
MList(s) == [t |-> "list", list |-> s]
MOther == [t |-> "other", list |-> <<>>]

MTruthy(m) == m.t = "other" \/ (m.t = "list" /\ m.list # <<>>)
MOr(a, b) == IF MTruthy(a) THEN a ELSE b

\* a response body: a bare list, an object with its data/results/items, or another value
PList(s) == [t |-> "list", list |-> s, data |-> MNull, results |-> MNull, items |-> MNull]
PDict(d, r, i) == [t |-> "dict", list |-> <<>>, data |-> d, results |-> r, items |-> i]
POther == [t |-> "other", list |-> <<>>, data |-> MNull, results |-> MNull, items |-> MNull]

\* lines 208-212
payload_items(payload) ==
    CASE payload.t = "list" -> MList(payload.list)
      [] payload.t = "dict" -> MOr(MOr(payload.data, payload.results), payload.items)
      [] OTHER -> MNull

extract_paradex_latest(payload) ==
    LET items == payload_items(payload) IN
    IF items.t # "list" \/ items.list = <<>> THEN None
    ELSE best_loop([rate |-> None, ts |-> Fin(-1)], items.list).rate

-----------------------------------------------------------------------------
(* Strings of the aggregator document, as sequences of characters *)

LowerAlpha == <<"a","b","c","d","e","f","g","h","i","j","k","l","m",
                "n","o","p","q","r","s","t","u","v","w","x","y","z">>
UpperAlpha == <<"A","B","C","D","E","F","G","H","I","J","K","L","M",
                "N","O","P","Q","R","S","T","U","V","W","X","Y","Z">>
Digits == {"0","1","2","3","4","5","6","7","8","9"}

InSeq(c, s) == \E i \in 1..Len(s) : s[i] = c
IndexOf(c, s) == CHOOSE i \in 1..Len(s) : s[i] = c

ToUpper(c) == IF InSeq(c, LowerAlpha) THEN UpperAlpha[IndexOf(c, LowerAlpha)] ELSE c
ToLower(c) == IF InSeq(c, UpperAlpha) THEN LowerAlpha[IndexOf(c, UpperAlpha)] ELSE c
IsAlnum(c) == InSeq(c, LowerAlpha) \/ InSeq(c, UpperAlpha) \/ c \in Digits

RECURSIVE clean_alnum(_)
clean_alnum(s) ==
    IF s = <<>> THEN <<>>
    ELSE (IF IsAlnum(Head(s)) THEN <<ToLower(Head(s))>> ELSE <<>>) \o clean_alnum(Tail(s))

\* str.replace(old, "-") for old of one or two characters
RECURSIVE Replace(_, _)
Replace(s, old) ==
    IF Len(s) < Len(old) THEN s
    ELSE IF SubSeq(s, 1, Len(old)) = old
         THEN <<"-">> \o Replace(SubSeq(s, Len(old) + 1, Len(s)), old)
         ELSE <<Head(s)>> \o Replace(Tail(s), old)

RECURSIVE LStrip(_)
LStrip(s) == IF s # <<>> /\ Head(s) = " " THEN LStrip(Tail(s)) ELSE s
RECURSIVE RStrip(_)
RStrip(s) == IF s # <<>> /\ s[Len(s)] = " " THEN RStrip(SubSeq(s, 1, Len(s) - 1)) ELSE s
Strip(s) == RStrip(LStrip(s))

\* the first non-empty part of s.split("-"), <<>> when there is none
RECURSIVE UpToDash(_)
UpToDash(s) == IF s = <<>> \/ Head(s) = "-" THEN <<>> ELSE <<Head(s)>> \o UpToDash(Tail(s))
RECURSIVE FirstPart(_)
FirstPart(s) == IF s = <<>> THEN <<>>
                ELSE IF Head(s) = "-" THEN FirstPart(Tail(s)) ELSE UpToDash(s)

base_from_symbol(symbol) ==
    LET s == Strip(Replace(Replace([i \in 1..Len(symbol) |-> ToUpper(symbol[i])],
                                   <<"/">>), <<"_", "_">>))
        first == FirstPart(s)
    IN IF first # <<>> THEN first ELSE IF s # <<>> THEN s ELSE <<"?">>

NoPlat == "None"

\* PLAT_MAP, in declaration order
PLAT_MAP == << [k |-> <<"l","i","g","h","t","e","r">>, v |-> "Lighter"],
               [k |-> <<"z","k","l","i","g","h","t","e","r">>, v |-> "Lighter"],
               [k |-> <<"h","y","p","e","r","l","i","q","u","i","d">>, v |-> "Hyperliquid"],
               [k |-> <<"h","y","p","e","r","l","i","q","u","i","d","v","2">>, v |-> "Hyperliquid"],
               [k |-> <<"h","y","p","e","r">>, v |-> "Hyperliquid"] >>

\* k in key, on strings
IsSubstring(k, key) ==
    \E i \in 1..(Len(key) - Len(k) + 1) : SubSeq(key, i, i + Len(k) - 1) = k

norm_platform_label(raw) ==
    IF raw = <<>> THEN NoPlat
    ELSE LET key == clean_alnum(raw)
             exact == {i \in 1..Len(PLAT_MAP) : PLAT_MAP[i].k = key}
             inside == {i \in 1..Len(PLAT_MAP) : IsSubstring(PLAT_MAP[i].k, key)}
             Min(S) == CHOOSE i \in S : \A j \in S : i <= j
         IN IF exact # {} THEN PLAT_MAP[Min(exact)].v
            ELSE IF inside # {} THEN PLAT_MAP[Min(inside)].v
            ELSE NoPlat

-----------------------------------------------------------------------------
(* extract_record                                                          *)
(* A node of the document is held by what extract_record reads of it: the  *)
(* string under its platform-like key and under its symbol-like key (<<>>  *)
(* when there is none, or it is empty: the code treats both alike), the    *)
(* value under its rate-like key (JNull when there is none), the keys of   *)
(* its path, and the symbol and rate one level down.                       *)

Node(p, pa, s, ns, r, nr) ==
    [platform |-> p, path |-> pa, symbol |-> s, nsymbol |-> ns, rate |-> r, nrate |-> nr]

IsScalar(j) == j.t \notin {"null", "obj"}

\* lines 111-117: the deepest key of the path that names a platform
RECURSIVE path_platform(_)
path_platform(path) ==
    IF path = <<>> THEN NoPlat
    ELSE LET guess == norm_platform_label(path[Len(path)]) IN
         IF guess # NoPlat THEN guess ELSE path_platform(SubSeq(path, 1, Len(path) - 1))

extract_record(d) ==
    LET platform1 == norm_platform_label(d.platform)
        platform == IF platform1 # NoPlat THEN platform1 ELSE path_platform(d.path)
        symbol == IF d.symbol # <<>> THEN d.symbol ELSE d.nsymbol
        rate1 == IF IsScalar(d.rate) THEN coerce_rate(d.rate) ELSE None
        rate2 == IF rate1 # None THEN rate1
                 ELSE IF IsScalar(d.nrate) THEN coerce_rate(d.nrate) ELSE None
        base == base_from_symbol(symbol)
    IN [plat |-> platform, base |-> IF symbol # <<>> THEN base ELSE <<>>, rate |-> rate2]

-----------------------------------------------------------------------------
(* The asset funding table *)

EmptyRow == [p \in {} |-> None]

Put(f, k, v) == [x \in (DOMAIN f) \cup {k} |-> IF x = k THEN v ELSE f[x]]

\* by_base.setdefault(base, {})
setdefault(tbl, base) == IF base \in DOMAIN tbl THEN tbl ELSE Put(tbl, base, EmptyRow)

RECURSIVE setdefault_all(_, _)
setdefault_all(tbl, bs) ==
    IF bs = <<>> THEN tbl ELSE setdefault_all(setdefault(tbl, Head(bs)), Tail(bs))

\* by_base[base][plat] = rate, the row being there
set_rate(tbl, base, plat, r) == [tbl EXCEPT ![base] = Put(tbl[base], plat, r)]

-----------------------------------------------------------------------------
(* Inputs of a run *)

MaxNodes == 3

PlatLabels == { <<>>,
                <<"z","k","L","i","g","h","t","e","r">>,
                <<"H","y","p","e","r">>,
                <<"d","Y","d","X">> }

Paths == { <<>>,
           << <<"d","a","t","a">>, <<"l","i","g","h","t","e","r">>, <<"0">> >>,
           << <<"h","y","p","e","r","-","v","2">>, <<"d","y","d","x">> >> }

Symbols == { <<>>, <<"a","/","b">>, <<"b","-","p">> }
NestedSymbols == { <<>>, <<"A","_","_","B">> }

AggRates == { JNull, JNum(320000), JNum(6000000), JStrNaN }
NestedRates == { JNull, JStr(3200) }

\* flat nodes, and nodes whose symbol or rate sits one level down
Nodes == { Node(p, pa, s, <<>>, r, JNull) : p \in PlatLabels, pa \in Paths, s \in Symbols,
                                          r \in AggRates }
         \cup { Node(<<"z","k","L","i","g","h","t","e","r">>, <<>>, s, ns, r, nr) :
                    s \in {<<>>}, ns \in NestedSymbols,
                    r \in {JNull, JObj, JNum(6000000)}, nr \in NestedRates }

\* extract_record on the nodes of the model, evaluated once
Extracted == [n \in Nodes |-> extract_record(n)]

OnlyBasesArgs == { <<>>, << <<"A">>, <<"A">> >>, << <<"Z">> >> }
LimitArgs == { 0, 1 }
QuotesArgs == { <<>>, <<"USD", "USDC">>, <<"USDT">> }

\* response bodies of the per-market endpoint
ProbeBodies == { PList(<<Entry(JStr(20), JNum(100)), Entry(JStr(10), JNum(300))>>),
                 PDict(MList(<<>>), MList(<<Entry(JStr(75000), JNull)>>), MNull),
                 PList(<<Entry(JNull, JNum(100))>>) }

\* what one request comes to: client.get raises, a 404, another error status, a 2xx
\* whose body is not JSON, a 2xx with a JSON body
Responses == { [kind |-> k, body |-> POther] : k \in {"exc", "404", "status", "badjson"} }
             \cup { [kind |-> "ok", body |-> b] : b \in ProbeBodies }

NoRec == [plat |-> NoPlat, base |-> <<>>, rate |-> None]
NoRow == [present |-> FALSE, row |-> EmptyRow]

-----------------------------------------------------------------------------
(* main *)

Init ==
    /\ pc = "start"
    /\ by_base = <<>>
    /\ bases_lighter = <<>>
    /\ nnodes = 0
    /\ last = NoRec
    /\ hist = <<>>
    /\ only_bases = <<>>
    /\ limit = 0
    /\ quotes = <<>>
    /\ bases = <<>>
    /\ bi = 0
    /\ qi = 0
    /\ log = <<>>
    /\ rate = None
    /\ row0 = NoRow
    /\ requested = FALSE
    /\ rendered = FALSE
    /\ inp = JNull
    /\ out = None

\* fetch_agg, lines 156-159: the request, raise_for_status and the parse succeed
AggFetch ==
    /\ pc = "start"
    /\ pc' = "agg"
    /\ UNCHANGED <<by_base, bases_lighter, nnodes, last, hist, only_bases, limit, quotes,
                   bases, bi, qi, log, rate, row0, requested, rendered, inp, out>>

\* fetch_agg raises (the request, the status, the parse, or the walk of a document
\* nested too deep), main lines 294-296
AggFail ==
    /\ pc \in {"start", "agg"}
    /\ pc' = "exit1"
    /\ UNCHANGED <<by_base, bases_lighter, nnodes, last, hist, only_bases, limit, quotes,
                   bases, bi, qi, log, rate, row0, requested, rendered, inp, out>>

\* AggNode keeping a triple whose rate is None
AggNode_null_rate(node) ==
    /\ pc = "agg"
    /\ nnodes < MaxNodes
    /\ LET rec == Extracted[node] IN
       /\ last' = rec
       /\ IF rec.plat \notin {"Lighter", "Hyperliquid"} \/ rec.base = <<>>
          THEN UNCHANGED <<by_base, bases_lighter, hist>>
          ELSE /\ by_base' = set_rate(setdefault(by_base, rec.base), rec.base, rec.plat, rec.rate)
               /\ IF rec.plat = "Lighter" /\ ~InSeq(rec.base, bases_lighter)
                  THEN bases_lighter' = Append(bases_lighter, rec.base)
                  ELSE UNCHANGED bases_lighter
               /\ hist' = IF rec.plat = "Lighter" THEN Append(hist, rec.base) ELSE hist
    /\ nnodes' = nnodes + 1
    /\ UNCHANGED <<pc, only_bases, limit, quotes, bases, bi, qi, log, rate, row0, requested,
                   rendered, inp, out>>

\* AggNode appending every Lighter base, seen or not
AggNode_dup_seed(node) ==
    /\ pc = "agg"
    /\ nnodes < MaxNodes
    /\ LET rec == Extracted[node] IN
       /\ last' = rec
       /\ IF rec.plat \notin {"Lighter", "Hyperliquid"} \/ rec.base = <<>> \/ rec.rate = None
          THEN UNCHANGED <<by_base, bases_lighter, hist>>
          ELSE /\ by_base' = set_rate(setdefault(by_base, rec.base), rec.base, rec.plat, rec.rate)
               /\ IF rec.plat = "Lighter"
                  THEN bases_lighter' = Append(bases_lighter, rec.base)
                  ELSE UNCHANGED bases_lighter
               /\ hist' = IF rec.plat = "Lighter" THEN Append(hist, rec.base) ELSE hist
    /\ nnodes' = nnodes + 1
    /\ UNCHANGED <<pc, only_bases, limit, quotes, bases, bi, qi, log, rate, row0, requested,
                   rendered, inp, out>>

\* fetch_agg, lines 161-179: one node of the walk
AggNode(node) ==
    /\ pc = "agg"
    /\ nnodes < MaxNodes
    /\ LET rec == Extracted[node] IN
       /\ last' = rec
       /\ IF rec.plat \notin {"Lighter", "Hyperliquid"} \/ rec.base = <<>> \/ rec.rate = None
          THEN UNCHANGED <<by_base, bases_lighter, hist>>
          ELSE /\ by_base' = set_rate(setdefault(by_base, rec.base), rec.base, rec.plat, rec.rate)
               /\ IF rec.plat = "Lighter" /\ ~InSeq(rec.base, bases_lighter)
                  THEN bases_lighter' = Append(bases_lighter, rec.base)
                  ELSE UNCHANGED bases_lighter
               /\ hist' = IF rec.plat = "Lighter" THEN Append(hist, rec.base) ELSE hist
    /\ nnodes' = nnodes + 1
    /\ UNCHANGED <<pc, only_bases, limit, quotes, bases, bi, qi, log, rate, row0, requested,
                   rendered, inp, out>>

\* fetch_agg returns, line 190; the history of the pass ends with it
AggDone ==
    /\ pc = "agg"
    /\ pc' = "setup"
    /\ nnodes' = 0
    /\ last' = NoRec
    /\ hist' = <<>>
    /\ UNCHANGED <<by_base, bases_lighter, only_bases, limit, quotes,
                   bases, bi, qi, log, rate, row0, requested, rendered, inp, out>>

\* main, lines 298-311, with the arguments of the run
Setup(ob, lim, qs) ==
    /\ pc = "setup"
    /\ only_bases' = ob
    /\ limit' = lim
    /\ quotes' = qs
    /\ by_base' = IF ob # <<>> THEN setdefault_all(by_base, ob) ELSE by_base
    /\ LET b0 == IF ob # <<>> THEN ob ELSE bases_lighter IN
       bases' = IF lim > 0 /\ lim < Len(b0) THEN SubSeq(b0, 1, lim) ELSE b0
    /\ bi' = 1
    /\ pc' = "loop"
    /\ UNCHANGED <<bases_lighter, nnodes, last, hist, qi, log, rate, row0, requested,
                   rendered, inp, out>>

\* main line 314: the call of fetch_paradex_latest_for_base for the next asset
ProbeBegin ==
    /\ pc = "loop"
    /\ bi <= Len(bases)
    /\ qi' = 1
    /\ log' = <<>>
    /\ row0' = IF bases[bi] \in DOMAIN by_base
               THEN [present |-> TRUE, row |-> by_base[bases[bi]]] ELSE NoRow
    /\ pc' = "probe"
    /\ UNCHANGED <<by_base, bases_lighter, nnodes, last, hist, only_bases, limit, quotes,
                   bases, bi, rate, requested, rendered, inp, out>>

\* ProbeRequest going on to the next quote after a rate was found
ProbeRequest_no_stop(resp) ==
    /\ pc = "probe"
    /\ qi <= Len(quotes)
    /\ log' = Append(log, [base |-> bases[bi], quote |-> quotes[qi], resp |-> resp])
    /\ requested' = TRUE
    /\ qi' = qi + 1
    /\ UNCHANGED <<pc, rate>>
    /\ UNCHANGED <<by_base, bases_lighter, nnodes, last, hist, only_bases, limit, quotes,
                   bases, bi, row0, rendered, inp, out>>

\* ProbeRequest giving up the asset at the first error status
ProbeRequest_abort(resp) ==
    /\ pc = "probe"
    /\ qi <= Len(quotes)
    /\ log' = Append(log, [base |-> bases[bi], quote |-> quotes[qi], resp |-> resp])
    /\ requested' = TRUE
    /\ CASE resp.kind \in {"exc", "404", "badjson"} ->
                 /\ qi' = qi + 1
                 /\ UNCHANGED <<pc, rate>>
         [] resp.kind = "status" ->
                 /\ rate' = None
                 /\ pc' = "merge"
                 /\ UNCHANGED qi
         [] resp.kind = "ok" ->
                 LET r == extract_paradex_latest(resp.body) IN
                 IF r # None
                 THEN /\ rate' = r
                      /\ pc' = "merge"
                      /\ UNCHANGED qi
                 ELSE /\ qi' = qi + 1
                      /\ UNCHANGED <<pc, rate>>
    /\ UNCHANGED <<by_base, bases_lighter, nnodes, last, hist, only_bases, limit, quotes,
                   bases, bi, row0, rendered, inp, out>>

\* ProbeRequest letting a network exception end the run
ProbeRequest_raise(resp) ==
    /\ pc = "probe"
    /\ qi <= Len(quotes)
    /\ log' = Append(log, [base |-> bases[bi], quote |-> quotes[qi], resp |-> resp])
    /\ requested' = TRUE
    /\ CASE resp.kind \in {"404", "status", "badjson"} ->
                 /\ qi' = qi + 1
                 /\ UNCHANGED <<pc, rate>>
         [] resp.kind = "exc" ->
                 /\ pc' = "exit1"
                 /\ UNCHANGED <<qi, rate>>
         [] resp.kind = "ok" ->
                 LET r == extract_paradex_latest(resp.body) IN
                 IF r # None
                 THEN /\ rate' = r
                      /\ pc' = "merge"
                      /\ UNCHANGED qi
                 ELSE /\ qi' = qi + 1
                      /\ UNCHANGED <<pc, rate>>
    /\ UNCHANGED <<by_base, bases_lighter, nnodes, last, hist, only_bases, limit, quotes,
                   bases, bi, row0, rendered, inp, out>>

\* fetch_paradex_latest_for_base, lines 233-251: the request for one quote
ProbeRequest(resp) ==
    /\ pc = "probe"
    /\ qi <= Len(quotes)
    /\ log' = Append(log, [base |-> bases[bi], quote |-> quotes[qi], resp |-> resp])
    /\ requested' = TRUE
    /\ CASE resp.kind \in {"exc", "404", "status", "badjson"} ->
                 /\ qi' = qi + 1
                 /\ UNCHANGED <<pc, rate>>
         [] resp.kind = "ok" ->
                 LET r == extract_paradex_latest(resp.body) IN
                 IF r # None
                 THEN /\ rate' = r
                      /\ pc' = "merge"
                      /\ UNCHANGED qi
                 ELSE /\ qi' = qi + 1
                      /\ UNCHANGED <<pc, rate>>
    /\ UNCHANGED <<by_base, bases_lighter, nnodes, last, hist, only_bases, limit, quotes,
                   bases, bi, row0, rendered, inp, out>>

\* fetch_paradex_latest_for_base, lines 252-254: the quotes are used up
ProbeNone ==
    /\ pc = "probe"
    /\ qi > Len(quotes)
    /\ rate' = None
    /\ pc' = "merge"
    /\ UNCHANGED <<by_base, bases_lighter, nnodes, last, hist, only_bases, limit, quotes,
                   bases, bi, qi, log, row0, requested, rendered, inp, out>>

\* Merge writing the Paradex cell whatever the probe returned
Merge_store_none ==
    /\ pc = "merge"
    /\ by_base' = set_rate(setdefault(by_base, bases[bi]), bases[bi], "Paradex", rate)
    /\ bi' = bi + 1
    /\ qi' = 0
    /\ log' = <<>>
    /\ row0' = NoRow
    /\ pc' = "loop"
    /\ UNCHANGED <<bases_lighter, nnodes, last, hist, only_bases, limit, quotes,
                   bases, rate, requested, rendered, inp, out>>

\* main, lines 315-318; the call has returned, its history ends
Merge ==
    /\ pc = "merge"
    /\ by_base' = IF rate # None
                  THEN set_rate(setdefault(by_base, bases[bi]), bases[bi], "Paradex", rate)
                  ELSE setdefault(by_base, bases[bi])
    /\ bi' = bi + 1
    /\ qi' = 0
    /\ log' = <<>>
    /\ row0' = NoRow
    /\ pc' = "loop"
    /\ UNCHANGED <<bases_lighter, nnodes, last, hist, only_bases, limit, quotes,
                   bases, rate, requested, rendered, inp, out>>

\* main, lines 320-325
Render ==
    /\ pc = "loop"
    /\ bi > Len(bases)
    /\ rendered' = TRUE
    /\ pc' = "exit0"
    /\ UNCHANGED <<by_base, bases_lighter, nnodes, last, hist, only_bases, limit, quotes,
                   bases, bi, qi, log, rate, row0, requested, inp, out>>

Next ==
    \/ AggFetch
    \/ AggFail
    \/ \E node \in Nodes : AggNode(node)
    \/ AggDone
    \/ \E ob \in OnlyBasesArgs, lim \in LimitArgs, qs \in QuotesArgs : Setup(ob, lim, qs)
    \/ ProbeBegin
    \/ \E resp \in Responses : ProbeRequest(resp)
    \/ ProbeNone
    \/ Merge
    \/ Render

Spec == Init /\ [][Next]_vars

\* the run is sequential and every request has a timeout: each step is taken
LiveSpec == Spec /\ WF_vars(Next)

-----------------------------------------------------------------------------
(* coerce_rate and extract_paradex_latest on their own *)

Idle == /\ by_base = <<>>
        /\ bases_lighter = <<>>
        /\ nnodes = 0
        /\ last = NoRec
        /\ hist = <<>>
        /\ only_bases = <<>>
        /\ limit = 0
        /\ quotes = <<>>
        /\ bases = <<>>
        /\ bi = 0
        /\ qi = 0
        /\ log = <<>>
        /\ rate = None
        /\ row0 = NoRow
        /\ requested = FALSE
        /\ rendered = FALSE

\* magnitudes around the thresholds 0.5, 1.0 and 100.0, in units of 10^-5
Magnitudes == { 0, 1500, 50000, 50100, 99900, 100000, 100100, 320000, 5000000,
                5010000, 6000000, 10000000, 10010000, 200000000 }

CoerceInputs == { JNum(m) : m \in Magnitudes } \cup { JNum(-m) : m \in Magnitudes }
                \cup { JStr(m) : m \in Magnitudes } \cup { JStr(-m) : m \in Magnitudes }
                \cup { JNull, JStrNaN, JStrInf, JStrBad, JStrEmpty, JObj }

InitCoerce == pc = "call" /\ inp \in CoerceInputs /\ out = None /\ Idle

CoerceCall ==
    /\ pc = "call"
    /\ out' = coerce_rate(inp)
    /\ pc' = "done"
    /\ UNCHANGED <<inp, by_base, bases_lighter, nnodes, last, hist, only_bases, limit,
                   quotes, bases, bi, qi, log, rate, row0, requested, rendered>>

SpecCoerce == InitCoerce /\ [][CoerceCall]_vars

MaxItems == 3

Alias(r, t) == [NotDict EXCEPT !.isdict = TRUE, !.fundingRate = r, !.time = t]

ExtractEntries ==
    { Entry(JStr(10), JNum(100)), Entry(JStr(20), JNum(300)), Entry(JNum(30), JNum(200)),
      Entry(JStr(40), JNumK(1700000000)), Entry(JNull, JIso(250)),
      Entry(JNum(0), JNum(400)), Entry(JStr(70), JNum(0)),
      Entry(JStr(10), JNull), Entry(JNum(20), JStrBad), Entry(JNum(0), JNull),
      Alias(JStr(60), JNum(150)), NotDict }

RECURSIVE SeqsUpTo(_, _)
SeqsUpTo(S, n) ==
    IF n = 0 THEN {<<>>}
    ELSE LET shorter == SeqsUpTo(S, n - 1) IN
         shorter \cup { Append(q, x) : q \in shorter, x \in S }

ExtractInputs(n) ==
    LET lists == SeqsUpTo(ExtractEntries, n) IN
    { PList(l) : l \in lists }
    \cup { PDict(MNull, MList(l), MList(<<Entry(JStr(10), JNum(100))>>)) : l \in lists }
    \cup { POther, PDict(MOther, MNull, MNull) }

InitExtract == pc = "call" /\ inp \in ExtractInputs(MaxItems) /\ out = None /\ Idle

ExtractCall ==
    /\ pc = "call"
    /\ out' = extract_paradex_latest(inp)
    /\ pc' = "done"
    /\ UNCHANGED <<inp, by_base, bases_lighter, nnodes, last, hist, only_bases, limit,
                   quotes, bases, bi, qi, log, rate, row0, requested, rendered>>

SpecExtract == InitExtract /\ [][ExtractCall]_vars

-----------------------------------------------------------------------------
(* Properties *)

\* what a response yields: the rate extracted from a 2xx JSON body, else None
Yield(resp) == IF resp.kind = "ok" THEN extract_paradex_latest(resp.body) ELSE None

\* a per-quote failure: a 404, another error status, a network exception, or a 2xx
\* whose body is not JSON or holds no rate
Failure(resp) == \/ resp.kind \in {"404", "status", "exc", "badjson"}
                 \/ resp.kind = "ok" /\ extract_paradex_latest(resp.body) = None

\* C1: the requests of a probe are those of the markets BASE-QUOTE-PERP for the
\* quotes in the caller's order; none follows a response that yields a rate; the
\* rate returned is the one the last response yields.
C1_ProbeOrder ==
    pc \in {"probe", "merge"} =>
        /\ Len(log) <= Len(quotes)
        /\ \A i \in 1..Len(log) : log[i].quote = quotes[i] /\ log[i].base = bases[bi]
        /\ \A i \in 1..(Len(log) - 1) : Yield(log[i].resp) = None
        /\ pc = "probe" => \A i \in 1..Len(log) : Yield(log[i].resp) = None
        /\ (pc = "merge" /\ rate # None) =>
               Len(log) >= 1 /\ Yield(log[Len(log)].resp) = rate

\* quotes USD, USDC: the USD market answers 404, the USDC one 200 with data
C1_Witness ==
    /\ pc = "merge"
    /\ quotes = <<"USD", "USDC">>
    /\ Len(log) = 2
    /\ log[1].quote = "USD" /\ log[1].resp.kind = "404"
    /\ log[2].quote = "USDC" /\ log[2].resp.kind = "ok"
    /\ rate = Fin(10)

\* C2: while the probe runs every response so far was a failure and the next quote
\* is the one after it; the probe returns None exactly when every quote of the list
\* was requested and failed.
C2_ProbeNonFatal ==
    /\ pc = "probe" =>
           /\ qi = Len(log) + 1
           /\ \A i \in 1..Len(log) : Failure(log[i].resp)
    /\ pc = "merge" =>
           (rate = None <=> /\ Len(log) = Len(quotes)
                            /\ \A i \in 1..Len(log) : Failure(log[i].resp))

\* a network exception, then a body with no rate: the probe returns None
C2_Witness ==
    /\ pc = "merge"
    /\ rate = None
    /\ Len(log) = 2
    /\ log[1].resp.kind = "exc"
    /\ log[2].resp.kind = "ok"

\* C4: a run that ends in failure issued no probe request and rendered nothing, and
\* only the aggregator fetch leads there; a run whose aggregator fetch succeeded
\* reaches the render step and ends in success.
C4_OnlyAggFatal ==
    /\ [](pc = "exit1" => ~requested /\ ~rendered)
    /\ [](pc = "exit0" => rendered)
    /\ [][pc' = "exit1" => pc \in {"start", "agg"}]_vars
    /\ (pc = "setup") ~> (pc = "exit0")

\* a run that ends in success with two assets probed and no rate found for either
C4_Witness ==
    /\ pc = "exit0" /\ rendered /\ requested
    /\ Len(bases) = 2 /\ Len(quotes) = 2
    /\ \A b \in DOMAIN by_base : "Paradex" \notin DOMAIN by_base[b]

\* C5 as stated: after the probe of an asset the asset is a key of the table, and
\* when the probe returned None its row has no Paradex entry and its Hyperliquid and
\* Lighter entries are those it had before the probe.
C5_NoParadexAfterFailedProbe ==
    [][pc = "merge" =>
          LET b == bases[bi] IN
          /\ b \in DOMAIN by_base'
          /\ rate = None =>
                /\ "Paradex" \notin DOMAIN by_base'[b]
                /\ \A p \in {"Hyperliquid", "Lighter"} :
                      /\ p \in DOMAIN by_base'[b] <=> p \in DOMAIN row0.row
                      /\ p \in DOMAIN row0.row => by_base'[b][p] = row0.row[p]]_vars

\* C5, amended: after the probe of an asset the asset is a key of the table, and
\* when the probe returned None its row is the one it had before the probe (empty
\* if it had none), which holds a Paradex entry only if the asset was probed before.
C5_FailedProbeKeepsRow ==
    /\ [][pc = "probe" => by_base' = by_base]_vars
    /\ [][pc = "merge" =>
             LET b == bases[bi] IN
             /\ b \in DOMAIN by_base'
             /\ rate = None =>
                   /\ by_base'[b] = row0.row
                   /\ "Paradex" \in DOMAIN by_base'[b] => \E j \in 1..(bi - 1) : bases[j] = b]_vars

\* the first asset, seeded from Lighter, was probed with requests and no result
C5_Witness ==
    /\ pc = "loop"
    /\ bi = 2
    /\ rate = None
    /\ requested
    /\ only_bases = <<>>
    /\ DOMAIN by_base[bases[1]] = {"Lighter"}

Kept(rec) == rec.plat \in {"Lighter", "Hyperliquid"} /\ rec.base # <<>> /\ rec.rate # None

\* C6: in the aggregator pass a triple is written under its base and platform when
\* its platform is Hyperliquid or Lighter, its base non-empty and its rate not None,
\* and otherwise leaves the table and the seed list as they were; every cell of the
\* table then has a non-empty base, one of these two platforms and a rate.
C6_AggAccept ==
    /\ [](pc \in {"agg", "setup"} =>
             \A b \in DOMAIN by_base :
                 /\ b # <<>>
                 /\ \A p \in DOMAIN by_base[b] :
                        p \in {"Lighter", "Hyperliquid"} /\ by_base[b][p] # None)
    /\ [][(pc = "agg" /\ nnodes' = nnodes + 1) =>
             IF Kept(last')
             THEN by_base' = set_rate(setdefault(by_base, last'.base), last'.base,
                                      last'.plat, last'.rate)
             ELSE by_base' = by_base /\ bases_lighter' = bases_lighter]_vars

\* a Lighter triple with a base and no rate was dropped from a table that holds a cell
C6_Witness ==
    /\ pc = "agg"
    /\ nnodes = 2
    /\ by_base # <<>>
    /\ last.plat = "Lighter" /\ last.base # <<>> /\ last.rate = None

\* the bases of a sequence, each at its first occurrence
RECURSIVE FirstSeen(_)
FirstSeen(q) ==
    IF q = <<>> THEN <<>>
    ELSE LET init == FirstSeen(SubSeq(q, 1, Len(q) - 1)) IN
         IF InSeq(q[Len(q)], init) THEN init ELSE Append(init, q[Len(q)])

\* C7: the seed list has no duplicate, and is the bases of the Lighter records kept
\* so far in the order of their first record; it only grows at its end.
C7_SeedList ==
    /\ [](pc = "agg" =>
             /\ \A i, j \in 1..Len(bases_lighter) :
                    bases_lighter[i] = bases_lighter[j] => i = j
             /\ bases_lighter = FirstSeen(hist))
    /\ [][pc = "agg" =>
             /\ Len(bases_lighter') >= Len(bases_lighter)
             /\ SubSeq(bases_lighter', 1, Len(bases_lighter)) = bases_lighter]_vars

\* Lighter records for A, B and A again
C7_Witness ==
    /\ pc = "agg"
    /\ hist = << <<"A">>, <<"B">>, <<"A">> >>
    /\ bases_lighter = << <<"A">>, <<"B">> >>

\* C8 as stated: no rate of the table, under any platform, has a magnitude above 0.5.
C8_RatesBounded ==
    \A b \in DOMAIN by_base : \A p \in DOMAIN by_base[b] : ~AbsGt(by_base[b][p], RateMax)

\* C9: on a number v, or a string that reads as v, coerce_rate scales v by 1/100
\* when 1 < |v| <= 100 and not otherwise, and returns the scaled value, or None when
\* its magnitude is above 0.5; on a value that is no number it returns None.
C9_CoerceRate ==
    pc = "done" =>
        CASE inp.t \in {"num", "str"} ->
                 LET v == inp.v
                     scaled == IF One < Abs(v) /\ Abs(v) <= PctMax THEN v \div Hundred ELSE v
                 IN /\ Abs(v) <= One => scaled = v
                    /\ out = IF Abs(scaled) > RateMax THEN None ELSE Fin(scaled)
          [] inp.t \in {"null", "strbad", "strempty", "obj", "strinf"} -> out = None
          [] OTHER -> TRUE

\* 3.2 is read as 3.2% and comes out as 0.032
C9_Witness == pc = "done" /\ inp = JNum(320000) /\ out = Fin(3200)

\* the rate fields and the timestamp fields of an entry, in the order they are tried
RateFields(it) == <<it.funding_rate, it.fundingRate, it.hourly_funding_rate>>
TsFields(it) == <<it.timestamp, it.time, it.ts, it.created_at, it.updated_at>>

\* the entry carries a rate: one of its rate fields holds a number
CarriesRate(it) ==
    it.isdict /\ \E i \in 1..3 : RateFields(it)[i] # JNull /\ ToFloat(RateFields(it)[i]).k # "err"
RateCarried(it) ==
    LET n == CHOOSE i \in 1..3 :
                 /\ RateFields(it)[i] # JNull /\ ToFloat(RateFields(it)[i]).k # "err"
                 /\ \A j \in 1..(i - 1) : RateFields(it)[j] = JNull
    IN ToFloat(RateFields(it)[n])

\* the entry carries a timestamp: one of its timestamp fields parses
CarriesTs(it) == it.isdict /\ \E i \in 1..5 : _parse_ts(TsFields(it)[i]) # None
TsCarried(it) ==
    LET n == CHOOSE i \in 1..5 :
                 /\ _parse_ts(TsFields(it)[i]) # None
                 /\ \A j \in 1..(i - 1) : _parse_ts(TsFields(it)[j]) = None
    IN _parse_ts(TsFields(it)[n])

\* C3 as stated: on a non-empty list whose entries each carry a rate and a timestamp,
\* the result is the rate of an entry whose timestamp is the maximum.
C3_LatestEntry ==
    (pc = "done" /\ inp.t = "list" /\ inp.list # <<>>
       /\ (\A k \in 1..Len(inp.list) : CarriesRate(inp.list[k]) /\ CarriesTs(inp.list[k]))) =>
        \E i \in 1..Len(inp.list) :
            /\ \A j \in 1..Len(inp.list) : ~FGt(TsCarried(inp.list[j]), TsCarried(inp.list[i]))
            /\ out = RateCarried(inp.list[i])

\* C10 as stated: on a list none of whose entries carries a timestamp, the result is
\* the rate of the last entry that carries a rate.
C10_LastWithoutTimestamps ==
    (pc = "done" /\ inp.t = "list"
       /\ (\A i \in 1..Len(inp.list) : ~CarriesTs(inp.list[i]))
       /\ (\E k \in 1..Len(inp.list) : CarriesRate(inp.list[k]))) =>
        LET n == CHOOSE i \in 1..Len(inp.list) :
                     /\ CarriesRate(inp.list[i])
                     /\ \A j \in (i + 1)..Len(inp.list) : ~CarriesRate(inp.list[j])
        IN out = RateCarried(inp.list[n])

====
